---- MODULE Spec2Model ----
(***************************************************************************)
(* Afterburner magic-key classifier (keybr-textinput-ui/lib/               *)
(* afterburner-magic.ts).  A line of practice text is a sequence of code   *)
(* points; getMagicType tags one position of the line as "magic",          *)
(* "skipMagic" or null.  Indices are zero-based as in the source; the      *)
(* k-th character of a line (k = 0, 1, ...) is chars[k + 1].               *)
(***************************************************************************)
EXTENDS Integers, Sequences, FiniteSets, TLC

VARIABLES chars, options, tags, nesting, pattern, parsed, settings, rendered, probed, reads, classifierCalls, other, otherTags, algorithmKeys, lessonKeys, excludedKeys, forcedKeys, focusedKey, toggled, pc

vars == <<chars, options, tags, nesting, pattern, parsed, settings, rendered, probed, reads, classifierCalls, other, otherTags, algorithmKeys, lessonKeys, excludedKeys, forcedKeys, focusedKey, toggled, pc>>

(***************************************************************************)
(* Code points.                                                            *)
(***************************************************************************)
cp ==
  [a |-> 97, b |-> 98, c |-> 99, d |-> 100, e |-> 101, f |-> 102, g |-> 103,
   h |-> 104, i |-> 105, j |-> 106, k |-> 107, l |-> 108, m |-> 109,
   n |-> 110, o |-> 111, p |-> 112, q |-> 113, r |-> 114, s |-> 115,
   t |-> 116, u |-> 117, v |-> 118, w |-> 119, x |-> 120, y |-> 121,
   z |-> 122,
   A |-> 65, E |-> 69, I |-> 73, N |-> 78, O |-> 79, Q |-> 81, S |-> 83,
   T |-> 84, U |-> 85,
   space |-> 32, tab |-> 9, newline |-> 10,
   hash |-> 35, dollar |-> 36,
   comma |-> 44, hyphen |-> 45, period |-> 46, slash |-> 47, semicolon |-> 59,
   dotlessI |-> 305]

\* String.prototype.toLowerCase on a one-character string: an ASCII capital
\* maps to its small letter; the other characters used here (small letters,
\* whitespace, punctuation, dotless i U+0131) map to themselves.
toLowerCase(c) == IF c >= 65 /\ c <= 90 THEN c + 32 ELSE c

\* The string built from a sequence of code points, lowercased.
toLowerCaseStr(str) == [n \in DOMAIN str |-> toLowerCase(str[n])]

\* chars[index].codePoint
At(line, index) == line[index + 1]

(***************************************************************************)
(* Word overrides.                                                         *)
(***************************************************************************)
\* Variant: a letter of the pattern is passed through to the algorithm.
parseOverridePattern_passThrough(str) ==
  [n \in DOMAIN str |->
     IF str[n] = cp.hash THEN "magic"
     ELSE IF str[n] = cp.dollar THEN "skipMagic"
     ELSE "undefined"]

parseOverridePattern(str) ==
  [n \in DOMAIN str |->
     IF str[n] = cp.hash THEN "magic"
     ELSE IF str[n] = cp.dollar THEN "skipMagic"
     ELSE "null"]

\* word -> pattern, as a set of <<word, pattern>> entries
DEFAULT_WORD_OVERRIDES ==
  { << <<cp.q, cp.u, cp.e, cp.u, cp.e>>,
       <<cp.q, cp.u, cp.dollar, cp.u, cp.dollar>> >>,
    << <<cp.i, cp.n, cp.s, cp.t, cp.i, cp.t, cp.u, cp.t, cp.e>>,
       <<cp.i, cp.n, cp.s, cp.t, cp.i, cp.t, cp.u, cp.t, cp.dollar>> >>,
    << <<cp.a, cp.m, cp.u, cp.s, cp.e, cp.m, cp.e, cp.n, cp.t>>,
       <<cp.a, cp.m, cp.u, cp.s, cp.dollar, cp.m, cp.e, cp.m, cp.t>> >>,
    << <<cp.q, cp.u, cp.i, cp.e, cp.t, cp.e, cp.d>>,
       <<cp.q, cp.u, cp.i, cp.dollar, cp.t, cp.e, cp.d>> >> }

PARSED_WORD_OVERRIDES ==
  { <<entry[1], parseOverridePattern(entry[2])>> : entry \in DEFAULT_WORD_OVERRIDES }

\* Map.get on the lowercased word: defined = FALSE stands for undefined
getWordOverride(word) ==
  LET key == toLowerCaseStr(word)
      hits == { entry \in PARSED_WORD_OVERRIDES : entry[1] = key }
  IN  IF hits = {} THEN [defined |-> FALSE, value |-> <<>>]
      ELSE [defined |-> TRUE, value |-> (CHOOSE entry \in hits : TRUE)[2]]

\* Variant: a comma ends a word as whitespace does.
isWhitespace_orComma(codePoint) ==
  codePoint = 32 \/ codePoint = 9 \/ codePoint = 10 \/ codePoint = 44

isWhitespace(codePoint) ==
  codePoint = 32 \/ codePoint = 9 \/ codePoint = 10

RECURSIVE scanWordStart(_, _)
scanWordStart(line, wordStart) ==
  IF wordStart > 0 /\ ~isWhitespace(At(line, wordStart - 1))
  THEN scanWordStart(line, wordStart - 1)
  ELSE wordStart

RECURSIVE scanWordEnd(_, _)
scanWordEnd(line, wordEnd) ==
  IF wordEnd < Len(line) - 1 /\ ~isWhitespace(At(line, wordEnd + 1))
  THEN scanWordEnd(line, wordEnd + 1)
  ELSE wordEnd

extractWord(line, index) ==
  IF index < 0 \/ index >= Len(line)
  THEN [isNull |-> TRUE, word |-> <<>>, positionInWord |-> 0]
  ELSE LET wordStart == scanWordStart(line, index)
           wordEnd == scanWordEnd(line, index)
       IN  [isNull |-> FALSE,
            word |-> toLowerCaseStr(SubSeq(line, wordStart + 1, wordEnd + 1)),
            positionInWord |-> index - wordStart]

(***************************************************************************)
(* Rule tables: trigger (lowercase) -> output.                             *)
(***************************************************************************)
\* Variant: the magic table has an entry for a punctuation trigger.
MAGIC_RULES_commaEntry ==
  (cp.a :> cp.o) @@ (cp.g :> cp.s) @@ (cp.h :> cp.y) @@ (cp.u :> cp.e) @@
  (cp.x :> cp.t) @@ (cp.y :> cp.h) @@ (cp.comma :> cp.i)

MAGIC_RULES ==
  (cp.a :> cp.o) @@ (cp.g :> cp.s) @@ (cp.h :> cp.y) @@ (cp.u :> cp.e) @@
  (cp.x :> cp.t) @@ (cp.y :> cp.h)

SKIP_MAGIC_RULES ==
  (cp.a :> cp.o) @@ (cp.b :> cp.n) @@ (cp.d :> cp.t) @@ (cp.f :> cp.s) @@
  (cp.g :> cp.s) @@ (cp.h :> cp.y) @@ (cp.j :> cp.y) @@ (cp.k :> cp.t) @@
  (cp.l :> cp.r) @@ (cp.m :> cp.k) @@ (cp.o :> cp.a) @@ (cp.p :> cp.n) @@
  (cp.q :> cp.e) @@ (cp.r :> cp.l) @@ (cp.u :> cp.e) @@ (cp.v :> cp.t) @@
  (cp.x :> cp.t) @@ (cp.y :> cp.h) @@ (cp.comma :> cp.i) @@
  (cp.period :> cp.i) @@ (cp.hyphen :> cp.i) @@ (cp.slash :> cp.a) @@
  (cp.semicolon :> cp.e)

\* Map.has / Map.get
has(rules, key) == key \in DOMAIN rules
get(rules, key) == IF key \in DOMAIN rules THEN rules[key] ELSE -1

(***************************************************************************)
(* Helper predicates.                                                      *)
(***************************************************************************)
wouldUseMagicKey(line, index) ==
  IF index < 1 \/ index >= Len(line) THEN FALSE
  ELSE LET currentChar == toLowerCase(At(line, index))
           lastChar == toLowerCase(At(line, index - 1))
           magicOutput == get(MAGIC_RULES, lastChar)
       IN  IF magicOutput = currentChar THEN TRUE
           ELSE IF lastChar = currentChar /\ ~has(MAGIC_RULES, lastChar) THEN TRUE
           ELSE FALSE

RECURSIVE wouldUseSkipMagicKey(_, _, _)
\* Variant: the helper leaves out the test for a space before the index.
wouldUseSkipMagicKey_noSpaceTest(line, index, opts) ==
  IF index < 2 \/ index >= Len(line) THEN FALSE
  ELSE IF opts.suppressSkipMagicAfterMagic
          /\ wouldUseMagicKey(line, index - 2) THEN FALSE
  ELSE IF opts.suppressSkipMagicAfterSkipMagic
          /\ index >= 3
          /\ wouldUseSkipMagicKey(line, index - 1,
               [suppressSkipMagicAfterMagic |-> opts.suppressSkipMagicAfterMagic,
                suppressSkipMagicAfterSkipMagic |-> FALSE,
                suppressSkipMagicAfterSpace |-> opts.suppressSkipMagicAfterSpace])
       THEN FALSE
  ELSE LET currentChar == toLowerCase(At(line, index))
           secondToLastChar == toLowerCase(At(line, index - 2))
           skipMagicOutput == get(SKIP_MAGIC_RULES, secondToLastChar)
       IN  IF skipMagicOutput = currentChar THEN TRUE
           ELSE IF secondToLastChar = currentChar
                   /\ ~has(SKIP_MAGIC_RULES, secondToLastChar) THEN TRUE
           ELSE FALSE

wouldUseSkipMagicKey(line, index, opts) ==
  IF index < 2 \/ index >= Len(line) THEN FALSE
  ELSE IF opts.suppressSkipMagicAfterMagic
          /\ wouldUseMagicKey(line, index - 2) THEN FALSE
  ELSE IF opts.suppressSkipMagicAfterSkipMagic
          /\ index >= 3
          /\ wouldUseSkipMagicKey(line, index - 1,
               [suppressSkipMagicAfterMagic |-> opts.suppressSkipMagicAfterMagic,
                suppressSkipMagicAfterSkipMagic |-> FALSE,
                suppressSkipMagicAfterSpace |-> opts.suppressSkipMagicAfterSpace])
       THEN FALSE
  ELSE IF opts.suppressSkipMagicAfterSpace
          /\ At(line, index - 1) = 32 THEN FALSE
  ELSE LET currentChar == toLowerCase(At(line, index))
           secondToLastChar == toLowerCase(At(line, index - 2))
           skipMagicOutput == get(SKIP_MAGIC_RULES, secondToLastChar)
       IN  IF skipMagicOutput = currentChar THEN TRUE
           ELSE IF secondToLastChar = currentChar
                   /\ ~has(SKIP_MAGIC_RULES, secondToLastChar) THEN TRUE
           ELSE FALSE

(***************************************************************************)
(* getMagicType.                                                           *)
(***************************************************************************)
MagicOptions ==
  [suppressSkipMagicAfterMagic : BOOLEAN,
   suppressSkipMagicAfterSkipMagic : BOOLEAN,
   suppressMagicAfterSkipMagic : BOOLEAN,
   suppressSkipMagicAfterSpace : BOOLEAN,
   magicKeyWordOverridesEnabled : BOOLEAN]

defaultMagicOptions ==
  [suppressSkipMagicAfterMagic |-> TRUE,
   suppressSkipMagicAfterSkipMagic |-> TRUE,
   suppressMagicAfterSkipMagic |-> TRUE,
   suppressSkipMagicAfterSpace |-> TRUE,
   magicKeyWordOverridesEnabled |-> TRUE]

\* Variant: a null entry of an override is taken as "use the algorithm".
overrideValue_nullFallsThrough(line, index, opts) ==
  IF ~opts.magicKeyWordOverridesEnabled THEN "undefined"
  ELSE LET wordInfo == extractWord(line, index)
       IN  IF wordInfo.isNull THEN "undefined"
           ELSE LET override == getWordOverride(wordInfo.word)
                IN  IF override.defined
                       /\ wordInfo.positionInWord < Len(override.value)
                       /\ override.value[wordInfo.positionInWord + 1] # "null"
                    THEN override.value[wordInfo.positionInWord + 1]
                    ELSE "undefined"

\* Variant: the override table is consulted whatever the enable flag says.
overrideValue_ignoresFlag(line, index, opts) ==
  LET wordInfo == extractWord(line, index)
  IN  IF wordInfo.isNull THEN "undefined"
      ELSE LET override == getWordOverride(wordInfo.word)
           IN  IF override.defined
                  /\ wordInfo.positionInWord < Len(override.value)
               THEN override.value[wordInfo.positionInWord + 1]
               ELSE "undefined"

\* The word-override step: the override's value at the position, or
\* "undefined" when rule evaluation is to decide.  Called with index in range.
overrideValue(line, index, opts) ==
  IF ~opts.magicKeyWordOverridesEnabled THEN "undefined"
  ELSE LET wordInfo == extractWord(line, index)
       IN  IF wordInfo.isNull THEN "undefined"
           ELSE LET override == getWordOverride(wordInfo.word)
                IN  IF override.defined
                       /\ wordInfo.positionInWord < Len(override.value)
                    THEN override.value[wordInfo.positionInWord + 1]
                    ELSE "undefined"

\* Variant: the magic test looks one position back instead of two.
charAtMinus2UsedMagic_oneBack(line, index, opts) ==
  opts.suppressSkipMagicAfterMagic /\ wouldUseMagicKey(line, index - 1)

charAtMinus2UsedMagic(line, index, opts) ==
  opts.suppressSkipMagicAfterMagic /\ wouldUseMagicKey(line, index - 2)

\* Variant: the index guard is strict.
charAtMinus1UsedSkipMagic_strictGuard(line, index, opts) ==
  /\ opts.suppressSkipMagicAfterSkipMagic
  /\ index > 3
  /\ wouldUseSkipMagicKey(line, index - 1,
       [suppressSkipMagicAfterMagic |-> opts.suppressSkipMagicAfterMagic,
        suppressSkipMagicAfterSkipMagic |-> FALSE,
        suppressSkipMagicAfterSpace |-> opts.suppressSkipMagicAfterSpace])

\* Variant: the nested evaluation keeps the caller's own flag.
charAtMinus1UsedSkipMagic_keepsFlag(line, index, opts) ==
  /\ opts.suppressSkipMagicAfterSkipMagic
  /\ index >= 3
  /\ wouldUseSkipMagicKey(line, index - 1,
       [suppressSkipMagicAfterMagic |-> opts.suppressSkipMagicAfterMagic,
        suppressSkipMagicAfterSkipMagic |-> opts.suppressSkipMagicAfterSkipMagic,
        suppressSkipMagicAfterSpace |-> opts.suppressSkipMagicAfterSpace])

charAtMinus1UsedSkipMagic(line, index, opts) ==
  /\ opts.suppressSkipMagicAfterSkipMagic
  /\ index >= 3
  /\ wouldUseSkipMagicKey(line, index - 1,
       [suppressSkipMagicAfterMagic |-> opts.suppressSkipMagicAfterMagic,
        suppressSkipMagicAfterSkipMagic |-> FALSE,
        suppressSkipMagicAfterSpace |-> opts.suppressSkipMagicAfterSpace])

\* Variant: the space test looks two positions back.
prevCharIsSpace_twoBack(line, index, opts) ==
  opts.suppressSkipMagicAfterSpace /\ index >= 2 /\ At(line, index - 2) = 32

\* Variant: the space test looks at the first character of the line.
prevCharIsSpace_firstChar(line, index, opts) ==
  opts.suppressSkipMagicAfterSpace /\ At(line, 0) = 32

prevCharIsSpace(line, index, opts) ==
  opts.suppressSkipMagicAfterSpace /\ At(line, index - 1) = 32

\* Variant: the veto after a skip-magic predecessor is left out.
shouldSuppressSkipMagic_noSkipMagicVeto(line, index, opts) ==
  \/ charAtMinus2UsedMagic(line, index, opts)
  \/ prevCharIsSpace(line, index, opts)

shouldSuppressSkipMagic(line, index, opts) ==
  \/ charAtMinus2UsedMagic(line, index, opts)
  \/ charAtMinus1UsedSkipMagic(line, index, opts)
  \/ prevCharIsSpace(line, index, opts)

\* The skip-magic rule test of getMagicType (explicit entry, or repeat).
skipMagicRuleApplies(line, index) ==
  LET currentChar == toLowerCase(At(line, index))
      secondToLastChar == toLowerCase(At(line, index - 2))
      skipMagicOutput == get(SKIP_MAGIC_RULES, secondToLastChar)
  IN  \/ skipMagicOutput = currentChar
      \/ (secondToLastChar = currentChar
          /\ ~has(SKIP_MAGIC_RULES, secondToLastChar))

\* Variant: the skip-magic test is made at the index itself, not one back.
shouldSuppressMagic_sameIndex(line, index, opts) ==
  /\ opts.suppressMagicAfterSkipMagic
  /\ wouldUseSkipMagicKey(line, index,
       [suppressSkipMagicAfterMagic |-> opts.suppressSkipMagicAfterMagic,
        suppressSkipMagicAfterSkipMagic |-> opts.suppressSkipMagicAfterSkipMagic,
        suppressSkipMagicAfterSpace |-> opts.suppressSkipMagicAfterSpace])

\* Variant: the suppression does not consult its option.
shouldSuppressMagic_ignoresFlag(line, index, opts) ==
  wouldUseSkipMagicKey(line, index - 1,
    [suppressSkipMagicAfterMagic |-> opts.suppressSkipMagicAfterMagic,
     suppressSkipMagicAfterSkipMagic |-> opts.suppressSkipMagicAfterSkipMagic,
     suppressSkipMagicAfterSpace |-> opts.suppressSkipMagicAfterSpace])

shouldSuppressMagic(line, index, opts) ==
  /\ opts.suppressMagicAfterSkipMagic
  /\ wouldUseSkipMagicKey(line, index - 1,
       [suppressSkipMagicAfterMagic |-> opts.suppressSkipMagicAfterMagic,
        suppressSkipMagicAfterSkipMagic |-> opts.suppressSkipMagicAfterSkipMagic,
        suppressSkipMagicAfterSpace |-> opts.suppressSkipMagicAfterSpace])

\* Variant: a repeated character matches even when the trigger has an entry.
magicRuleApplies_repeatAlways(line, index) ==
  LET currentChar == toLowerCase(At(line, index))
      lastChar == toLowerCase(At(line, index - 1))
      magicOutput == get(MAGIC_RULES, lastChar)
  IN  \/ magicOutput = currentChar
      \/ lastChar = currentChar

\* Variant: the previous character is looked up without lowercasing it.
magicRuleApplies_caseSensitive(line, index) ==
  LET currentChar == toLowerCase(At(line, index))
      lastChar == At(line, index - 1)
      magicOutput == get(MAGIC_RULES, lastChar)
  IN  \/ magicOutput = currentChar
      \/ (lastChar = currentChar /\ ~has(MAGIC_RULES, lastChar))

\* The magic rule test of getMagicType (explicit entry, or repeat).
magicRuleApplies(line, index) ==
  LET currentChar == toLowerCase(At(line, index))
      lastChar == toLowerCase(At(line, index - 1))
      magicOutput == get(MAGIC_RULES, lastChar)
  IN  \/ magicOutput = currentChar
      \/ (lastChar = currentChar /\ ~has(MAGIC_RULES, lastChar))

\* Variant: the magic check is tried before the skip-magic check.
ruleBasedType_magicFirst(line, index, opts) ==
  IF index >= 1
     /\ ~shouldSuppressMagic(line, index, opts)
     /\ magicRuleApplies(line, index) THEN "magic"
  ELSE IF index >= 2
          /\ ~shouldSuppressSkipMagic(line, index, opts)
          /\ skipMagicRuleApplies(line, index) THEN "skipMagic"
  ELSE "null"

\* Variant: the magic check runs at index 0 too, reading the previous
\* character at a position clamped into the line.
ruleBasedType_clampPrev(line, index, opts) ==
  IF index >= 2
     /\ ~shouldSuppressSkipMagic(line, index, opts)
     /\ skipMagicRuleApplies(line, index) THEN "skipMagic"
  ELSE IF index >= 1
       THEN IF ~shouldSuppressMagic(line, index, opts)
               /\ magicRuleApplies(line, index) THEN "magic" ELSE "null"
  ELSE IF ~has(MAGIC_RULES, toLowerCase(At(line, index))) THEN "magic"
  ELSE "null"

\* Rule evaluation: the skip-magic check, then the magic check.
ruleBasedType(line, index, opts) ==
  IF index >= 2
     /\ ~shouldSuppressSkipMagic(line, index, opts)
     /\ skipMagicRuleApplies(line, index) THEN "skipMagic"
  ELSE IF index >= 1
          /\ ~shouldSuppressMagic(line, index, opts)
          /\ magicRuleApplies(line, index) THEN "magic"
  ELSE "null"

\* Variant: an index outside the line is clamped to the nearest position.
getMagicType_clampIndex(line, index, opts) ==
  LET clamped == IF index < 0 THEN 0
                 ELSE IF index >= Len(line) THEN Len(line) - 1
                 ELSE index
  IN  IF Len(line) = 0 THEN "null"
      ELSE IF overrideValue(line, clamped, opts) # "undefined"
           THEN overrideValue(line, clamped, opts)
      ELSE ruleBasedType(line, clamped, opts)

getMagicType(line, index, opts) ==
  IF index < 0 \/ index >= Len(line) THEN "null"
  ELSE IF overrideValue(line, index, opts) # "undefined"
       THEN overrideValue(line, index, opts)
  ELSE ruleBasedType(line, index, opts)

(***************************************************************************)
(* Nesting of wouldUseSkipMagicKey: how many activations of the predicate  *)
(* are on the stack at the deepest point of a call.                        *)
(***************************************************************************)
\* Variant: the nested evaluation keeps the caller's own flag.
RECURSIVE wouldUseSkipMagicKeyDepth_keepsFlag(_, _, _)
wouldUseSkipMagicKeyDepth_keepsFlag(line, index, opts) ==
  IF index < 2 \/ index >= Len(line) THEN 1
  ELSE IF opts.suppressSkipMagicAfterMagic
          /\ wouldUseMagicKey(line, index - 2) THEN 1
  ELSE IF opts.suppressSkipMagicAfterSkipMagic /\ index >= 3
       THEN 1 + wouldUseSkipMagicKeyDepth_keepsFlag(line, index - 1, opts)
  ELSE 1

\* One activation for the call itself, plus the nested call when the
\* after-skip-magic test reaches it.
RECURSIVE wouldUseSkipMagicKeyDepth(_, _, _)
wouldUseSkipMagicKeyDepth(line, index, opts) ==
  IF index < 2 \/ index >= Len(line) THEN 1
  ELSE IF opts.suppressSkipMagicAfterMagic
          /\ wouldUseMagicKey(line, index - 2) THEN 1
  ELSE IF opts.suppressSkipMagicAfterSkipMagic /\ index >= 3
       THEN 1 + wouldUseSkipMagicKeyDepth(line, index - 1,
                  [suppressSkipMagicAfterMagic |-> opts.suppressSkipMagicAfterMagic,
                   suppressSkipMagicAfterSkipMagic |-> FALSE,
                   suppressSkipMagicAfterSpace |-> opts.suppressSkipMagicAfterSpace])
  ELSE 1

\* The deepest nesting reached by the two calls getMagicType makes: the one
\* of the after-skip-magic test and the one of the magic suppression.
getMagicTypeDepth(line, index, opts) ==
  IF index < 0 \/ index >= Len(line) THEN 0
  ELSE IF overrideValue(line, index, opts) # "undefined" THEN 0
  ELSE LET skipTestDepth ==
             IF index >= 2 /\ opts.suppressSkipMagicAfterSkipMagic /\ index >= 3
             THEN wouldUseSkipMagicKeyDepth(line, index - 1,
                    [suppressSkipMagicAfterMagic |-> opts.suppressSkipMagicAfterMagic,
                     suppressSkipMagicAfterSkipMagic |-> FALSE,
                     suppressSkipMagicAfterSpace |-> opts.suppressSkipMagicAfterSpace])
             ELSE 0
           skipMagicReturned ==
             /\ index >= 2
             /\ ~shouldSuppressSkipMagic(line, index, opts)
             /\ skipMagicRuleApplies(line, index)
           magicTestDepth ==
             IF ~skipMagicReturned /\ index >= 1 /\ opts.suppressMagicAfterSkipMagic
             THEN wouldUseSkipMagicKeyDepth(line, index - 1,
                    [suppressSkipMagicAfterMagic |-> opts.suppressSkipMagicAfterMagic,
                     suppressSkipMagicAfterSkipMagic |-> opts.suppressSkipMagicAfterSkipMagic,
                     suppressSkipMagicAfterSpace |-> opts.suppressSkipMagicAfterSpace])
             ELSE 0
       IN  IF skipTestDepth >= magicTestDepth THEN skipTestDepth ELSE magicTestDepth

\* The classifier before the suppression options and word overrides.
getMagicTypeV1(line, index) ==
  IF index < 0 \/ index >= Len(line) THEN "null"
  ELSE LET currentChar == toLowerCase(At(line, index))
       IN  IF index >= 2
              /\ LET secondToLastChar == toLowerCase(At(line, index - 2))
                     skipMagicOutput == get(SKIP_MAGIC_RULES, secondToLastChar)
                 IN  \/ skipMagicOutput = currentChar
                     \/ (secondToLastChar = currentChar
                         /\ ~has(SKIP_MAGIC_RULES, secondToLastChar))
           THEN "skipMagic"
           ELSE IF index >= 1
                   /\ LET lastChar == toLowerCase(At(line, index - 1))
                          magicOutput == get(MAGIC_RULES, lastChar)
                      IN  \/ magicOutput = currentChar
                          \/ (lastChar = currentChar
                              /\ ~has(MAGIC_RULES, lastChar))
           THEN "magic"
           ELSE "null"

(***************************************************************************)
(* Lines of practice text the classifier is run on.                        *)
(***************************************************************************)
MaxLen == 5
Margin == 2

\* Characters of the exhaustively enumerated lines: a (magic and skip-magic
\* rule a -> o), o (skip-magic rule o -> a only), e (no rule: repeat), an
\* upper-case letter, and two kinds of whitespace.
Alphabet == {cp.a, cp.o, cp.e, cp.A, cp.space, cp.tab}

ShortLines == UNION { [1..n -> Alphabet] : n \in 0..MaxLen }

queue == <<cp.q, cp.u, cp.e, cp.u, cp.e>>
institute == <<cp.i, cp.n, cp.s, cp.t, cp.i, cp.t, cp.u, cp.t, cp.e>>
amusement == <<cp.a, cp.m, cp.u, cp.s, cp.e, cp.m, cp.e, cp.n, cp.t>>
quieted == <<cp.q, cp.u, cp.i, cp.e, cp.t, cp.e, cp.d>>

CuratedWords == {queue, institute, amusement, quieted}

toUpperCaseStr(str) ==
  [n \in DOMAIN str |-> IF str[n] >= 97 /\ str[n] <= 122 THEN str[n] - 32 ELSE str[n]]

\* Text before and after a whole-token occurrence of a word.
Before ==
  { <<>>, <<cp.e, cp.space>>, <<cp.a, cp.tab>>, <<cp.u, cp.newline>>,
    <<cp.q, cp.space, cp.space>> }
After ==
  { <<>>, <<cp.space, cp.e>>, <<cp.tab, cp.a>>, <<cp.newline>>,
    <<cp.space, cp.space, cp.e>> }

CuratedLines ==
  { before \o word \o after :
      before \in Before, after \in After,
      word \in CuratedWords \cup { toUpperCaseStr(w) : w \in CuratedWords } }

\* Curated words that are only part of a longer token.
PartialLines ==
  { word \o <<cp.s>> : word \in CuratedWords } \cup
  { word \o <<cp.comma>> : word \in CuratedWords } \cup
  { <<cp.e>> \o word : word \in CuratedWords }

\* The example words of the settings page and of the rule tables.
ExampleLines ==
  { <<cp.A, cp.S, cp.S, cp.A, cp.S, cp.S, cp.I, cp.N>>,
    <<cp.Q, cp.U, cp.E, cp.E, cp.N>>,
    <<cp.N, cp.I, cp.N, cp.E, cp.T, cp.E, cp.E, cp.N>>,
    <<cp.S, cp.I, cp.T, cp.space, cp.T, cp.I, cp.E>>,
    <<cp.c, cp.h, cp.a, cp.o, cp.s>>,
    <<cp.s, cp.o, cp.comma, cp.space, cp.i>>,
    <<cp.e, cp.e, cp.e, cp.e, cp.e, cp.e, cp.e, cp.e>> }

\* Lines with a letter outside ASCII: dotless i, whose capital is I.
CaseLines ==
  { <<cp.i, cp.dotlessI>>, <<cp.dotlessI, cp.i>>, <<cp.I, cp.dotlessI>>,
    <<cp.dotlessI, cp.dotlessI>>, <<cp.i, cp.e, cp.dotlessI>>,
    <<cp.comma, cp.space, cp.dotlessI>> }

\* Short lines with punctuation that the skip table knows as a trigger.
PunctuationLines ==
  UNION { [1..n -> {cp.comma, cp.semicolon, cp.e, cp.i, cp.space}] : n \in 2..3 }

Lines ==
  ShortLines \cup CuratedLines \cup PartialLines \cup ExampleLines \cup CaseLines
    \cup PunctuationLines

\* Every index the classifier is asked about: the line's positions and
\* Margin indices on either side of them.
Indices(line) == (0 - Margin)..(Len(line) + Margin - 1)

(***************************************************************************)
(* State machine: a line and the options are chosen, then every index of   *)
(* the line is classified.                                                 *)
(***************************************************************************)
Init ==
  /\ chars \in Lines
  /\ options \in MagicOptions
  /\ tags = <<>>
  /\ nesting = <<>>
  /\ pattern = <<>>
  /\ parsed = <<>>
  /\ settings = <<>>
  /\ rendered = <<>>
  /\ probed = <<>>
  /\ reads = <<>>
  /\ classifierCalls = 0
  /\ other = <<>>
  /\ otherTags = <<>>
  /\ algorithmKeys = <<>>
  /\ lessonKeys = <<>>
  /\ excludedKeys = <<>>
  /\ forcedKeys = <<>>
  /\ focusedKey = 0
  /\ toggled = 0
  /\ pc = "ready"

Classify ==
  /\ pc = "ready"
  /\ tags' = [index \in Indices(chars) |-> getMagicType(chars, index, options)]
  /\ nesting' = [index \in Indices(chars) |-> getMagicTypeDepth(chars, index, options)]
  /\ pc' = "done"
  /\ UNCHANGED <<chars, options, pattern, parsed, settings, rendered, probed, reads, classifierCalls, other, otherTags, algorithmKeys, lessonKeys, excludedKeys, forcedKeys, focusedKey, toggled>>

Next == Classify

Spec == Init /\ [][Next]_vars

(***************************************************************************)
(* Pattern parsing: a pattern string is chosen, then parsed.               *)
(***************************************************************************)
MaxPatternLen == 4

PatternAlphabet == {cp.hash, cp.dollar, cp.q, cp.U, cp.space}

Patterns ==
  UNION { [1..n -> PatternAlphabet] : n \in 0..MaxPatternLen }
    \cup { entry[2] : entry \in DEFAULT_WORD_OVERRIDES }

InitParse ==
  /\ pattern \in Patterns
  /\ parsed = <<>>
  /\ chars = <<>>
  /\ options = defaultMagicOptions
  /\ tags = <<>>
  /\ nesting = <<>>
  /\ settings = <<>>
  /\ rendered = <<>>
  /\ probed = <<>>
  /\ reads = <<>>
  /\ classifierCalls = 0
  /\ other = <<>>
  /\ otherTags = <<>>
  /\ algorithmKeys = <<>>
  /\ lessonKeys = <<>>
  /\ excludedKeys = <<>>
  /\ forcedKeys = <<>>
  /\ focusedKey = 0
  /\ toggled = 0
  /\ pc = "ready"

Parse ==
  /\ pc = "ready"
  /\ parsed' = parseOverridePattern(pattern)
  /\ pc' = "parsed"
  /\ UNCHANGED <<pattern, chars, options, tags, nesting, settings, rendered, probed, reads, classifierCalls, other, otherTags, algorithmKeys, lessonKeys, excludedKeys, forcedKeys, focusedKey, toggled>>

NextParse == Parse

SpecParse == InitParse /\ [][NextParse]_vars

(***************************************************************************)
(* Rendering: a line and the display settings are chosen, then the line is *)
(* rendered item by item and every character gets its highlight style.     *)
(***************************************************************************)
MAGIC_BACKGROUND_COLOR == "#f80b"
SKIP_MAGIC_BACKGROUND_COLOR == "#2adb"

EN_AFTERBURNER == "en-afterburner"

\* The fields of TextDisplaySettings the highlighting reads. layout is the
\* layout's id, or "undefined" when the settings carry no layout.
TextDisplaySettings ==
  [layout : {EN_AFTERBURNER, "en-us", "undefined"},
   magicKeyHighlighting : BOOLEAN,
   suppressSkipMagicAfterMagic : BOOLEAN,
   suppressSkipMagicAfterSkipMagic : BOOLEAN,
   suppressMagicAfterSkipMagic : BOOLEAN,
   suppressSkipMagicAfterSpace : BOOLEAN,
   magicKeyWordOverridesEnabled : BOOLEAN]

\* Variant: either condition alone turns the highlighting on.
shouldShowMagicHighlighting_either(s) ==
  s.layout = EN_AFTERBURNER \/ s.magicKeyHighlighting

shouldShowMagicHighlighting(s) ==
  s.layout = EN_AFTERBURNER /\ s.magicKeyHighlighting

\* The options object literal carries three fields; the two it leaves out
\* read as undefined in getMagicType, which is falsy wherever they are used.
getMagicStyle(s, magicContext, localIndex) ==
  IF ~shouldShowMagicHighlighting(s) THEN "undefined"
  ELSE LET globalIndex == magicContext.offset + localIndex
           magicType ==
             getMagicType(magicContext.contextChars, globalIndex,
               [suppressSkipMagicAfterMagic |-> s.suppressSkipMagicAfterMagic,
                suppressSkipMagicAfterSkipMagic |-> FALSE,
                suppressMagicAfterSkipMagic |-> s.suppressMagicAfterSkipMagic,
                suppressSkipMagicAfterSpace |-> s.suppressSkipMagicAfterSpace,
                magicKeyWordOverridesEnabled |-> FALSE])
       IN IF magicType = "magic" THEN MAGIC_BACKGROUND_COLOR
          ELSE IF magicType = "skipMagic" THEN SKIP_MAGIC_BACKGROUND_COLOR
          ELSE "undefined"

\* The magic style of each node renderChars produces for an item; without
\* highlighting the grouped spans carry no magic style.
renderChars(s, itemChars, magicContext) ==
  IF shouldShowMagicHighlighting(s)
  THEN [n \in 1..Len(itemChars) |-> getMagicStyle(s, magicContext, n - 1)]
  ELSE [n \in 1..Len(itemChars) |-> "undefined"]

RECURSIVE TextLineItems(_, _, _, _, _, _)
\* The loop of TextLine: a new item starts at the first character that
\* follows whitespace; each item remembers where it starts in the line.
TextLineItems(line, i, items, itemChars, itemStart, ws) ==
  IF i >= Len(line)
  THEN IF Len(itemChars) > 0
       THEN Append(items, [chars |-> itemChars, offset |-> itemStart])
       ELSE items
  ELSE LET char == At(line, i) IN
       IF char = 9 \/ char = 10 \/ char = 32
       THEN TextLineItems(line, i + 1, items, Append(itemChars, char), itemStart, TRUE)
       ELSE IF ws
       THEN TextLineItems(line, i + 1,
              IF Len(itemChars) > 0
              THEN Append(items, [chars |-> itemChars, offset |-> itemStart])
              ELSE items,
              <<char>>, i, FALSE)
       ELSE TextLineItems(line, i + 1, items, Append(itemChars, char), itemStart, FALSE)

RECURSIVE renderItems(_, _, _, _)
renderItems(s, line, items, n) ==
  IF n > Len(items) THEN <<>>
  ELSE renderChars(s, items[n].chars,
                   [contextChars |-> line, offset |-> items[n].offset])
         \o renderItems(s, line, items, n + 1)

\* The styles of the line's characters, in order, as TextLine renders them.
TextLine(s, line) ==
  renderItems(s, line, TextLineItems(line, 0, <<>>, <<>>, 0, FALSE), 1)

\* The number of getMagicType calls each rendering function makes.
getMagicStyleCalls(s, magicContext, localIndex) ==
  IF ~shouldShowMagicHighlighting(s) THEN 0 ELSE 1

RECURSIVE renderCharsCalls(_, _, _, _)
renderCharsCalls(s, itemChars, magicContext, i) ==
  IF ~shouldShowMagicHighlighting(s) \/ i >= Len(itemChars) THEN 0
  ELSE getMagicStyleCalls(s, magicContext, i)
         + renderCharsCalls(s, itemChars, magicContext, i + 1)

RECURSIVE renderItemsCalls(_, _, _, _)
renderItemsCalls(s, line, items, n) ==
  IF n > Len(items) THEN 0
  ELSE renderCharsCalls(s, items[n].chars,
                        [contextChars |-> line, offset |-> items[n].offset], 0)
         + renderItemsCalls(s, line, items, n + 1)

TextLineCalls(s, line) ==
  renderItemsCalls(s, line, TextLineItems(line, 0, <<>>, <<>>, 0, FALSE), 1)

MaxRenderLen == 3

RenderLines ==
  UNION { [1..n -> Alphabet] : n \in 0..MaxRenderLen }
    \cup CuratedLines \cup PartialLines \cup ExampleLines

InitRender ==
  /\ chars \in RenderLines
  /\ settings \in TextDisplaySettings
  /\ rendered = <<>>
  /\ options = defaultMagicOptions
  /\ tags = <<>>
  /\ nesting = <<>>
  /\ pattern = <<>>
  /\ parsed = <<>>
  /\ probed = <<>>
  /\ reads = <<>>
  /\ classifierCalls = 0
  /\ other = <<>>
  /\ otherTags = <<>>
  /\ algorithmKeys = <<>>
  /\ lessonKeys = <<>>
  /\ excludedKeys = <<>>
  /\ forcedKeys = <<>>
  /\ focusedKey = 0
  /\ toggled = 0
  /\ pc = "ready"

Render ==
  /\ pc = "ready"
  /\ rendered' = TextLine(settings, chars)
  /\ classifierCalls' = TextLineCalls(settings, chars)
  /\ pc' = "rendered"
  /\ UNCHANGED <<chars, settings, options, tags, nesting, pattern, parsed, probed, reads, other, otherTags, algorithmKeys, lessonKeys, excludedKeys, forcedKeys, focusedKey, toggled>>

NextRender == Render

SpecRender == InitRender /\ [][NextRender]_vars

(***************************************************************************)
(* Positions read: for each function, the set of sequence positions whose  *)
(* codePoint it reads, following the function's control flow.              *)
(***************************************************************************)
RECURSIVE scanWordStartReads(_, _)
scanWordStartReads(line, wordStart) ==
  IF wordStart > 0
  THEN {wordStart - 1} \cup
       (IF isWhitespace(At(line, wordStart - 1)) THEN {}
        ELSE scanWordStartReads(line, wordStart - 1))
  ELSE {}

RECURSIVE scanWordEndReads(_, _)
scanWordEndReads(line, wordEnd) ==
  IF wordEnd < Len(line) - 1
  THEN {wordEnd + 1} \cup
       (IF isWhitespace(At(line, wordEnd + 1)) THEN {}
        ELSE scanWordEndReads(line, wordEnd + 1))
  ELSE {}

\* Variant: the range test lets the index one past the end through.
extractWordReads_offByOne(line, index) ==
  IF index < 0 \/ index > Len(line) THEN {}
  ELSE {index}

extractWordReads(line, index) ==
  IF index < 0 \/ index >= Len(line) THEN {}
  ELSE scanWordStartReads(line, index) \cup scanWordEndReads(line, index)
         \cup (scanWordStart(line, index)..scanWordEnd(line, index))

wouldUseMagicKeyReads(line, index) ==
  IF index < 1 \/ index >= Len(line) THEN {}
  ELSE {index, index - 1}

RECURSIVE wouldUseSkipMagicKeyReads(_, _, _)
wouldUseSkipMagicKeyReads(line, index, opts) ==
  IF index < 2 \/ index >= Len(line) THEN {}
  ELSE LET nestedOpts ==
             [suppressSkipMagicAfterMagic |-> opts.suppressSkipMagicAfterMagic,
              suppressSkipMagicAfterSkipMagic |-> FALSE,
              suppressSkipMagicAfterSpace |-> opts.suppressSkipMagicAfterSpace]
           magicTest ==
             IF opts.suppressSkipMagicAfterMagic
             THEN wouldUseMagicKeyReads(line, index - 2) ELSE {}
           skipTest ==
             IF opts.suppressSkipMagicAfterSkipMagic /\ index >= 3
             THEN wouldUseSkipMagicKeyReads(line, index - 1, nestedOpts) ELSE {}
           spaceTest ==
             IF opts.suppressSkipMagicAfterSpace THEN {index - 1} ELSE {}
       IN  IF opts.suppressSkipMagicAfterMagic /\ wouldUseMagicKey(line, index - 2)
           THEN magicTest
           ELSE IF opts.suppressSkipMagicAfterSkipMagic /\ index >= 3
                   /\ wouldUseSkipMagicKey(line, index - 1, nestedOpts)
           THEN magicTest \cup skipTest
           ELSE IF opts.suppressSkipMagicAfterSpace /\ At(line, index - 1) = 32
           THEN magicTest \cup skipTest \cup spaceTest
           ELSE magicTest \cup skipTest \cup spaceTest \cup {index, index - 2}

\* The reads of getMagicType after the override step: the three suppression
\* constants are computed first, then the rule characters are read.
ruleBasedReads(line, index, opts) ==
  LET skipOpts ==
        [suppressSkipMagicAfterMagic |-> opts.suppressSkipMagicAfterMagic,
         suppressSkipMagicAfterSkipMagic |-> opts.suppressSkipMagicAfterSkipMagic,
         suppressSkipMagicAfterSpace |-> opts.suppressSkipMagicAfterSpace]
      skipPart ==
        IF index >= 2
        THEN (IF opts.suppressSkipMagicAfterMagic
              THEN wouldUseMagicKeyReads(line, index - 2) ELSE {})
             \cup (IF opts.suppressSkipMagicAfterSkipMagic /\ index >= 3
                   THEN wouldUseSkipMagicKeyReads(line, index - 1,
                          [skipOpts EXCEPT !.suppressSkipMagicAfterSkipMagic = FALSE])
                   ELSE {})
             \cup (IF opts.suppressSkipMagicAfterSpace THEN {index - 1} ELSE {})
             \cup (IF ~shouldSuppressSkipMagic(line, index, opts)
                   THEN {index - 2} ELSE {})
        ELSE {}
      skipReturned ==
        /\ index >= 2
        /\ ~shouldSuppressSkipMagic(line, index, opts)
        /\ skipMagicRuleApplies(line, index)
      magicPart ==
        IF index >= 1
        THEN (IF opts.suppressMagicAfterSkipMagic
              THEN wouldUseSkipMagicKeyReads(line, index - 1, skipOpts) ELSE {})
             \cup (IF ~shouldSuppressMagic(line, index, opts)
                   THEN {index - 1} ELSE {})
        ELSE {}
  IN  {index} \cup skipPart \cup (IF skipReturned THEN {} ELSE magicPart)

getMagicTypeReads(line, index, opts) ==
  IF index < 0 \/ index >= Len(line) THEN {}
  ELSE (IF opts.magicKeyWordOverridesEnabled
        THEN extractWordReads(line, index) ELSE {})
       \cup (IF overrideValue(line, index, opts) # "undefined" THEN {}
             ELSE ruleBasedReads(line, index, opts))

(***************************************************************************)
(* Probing: a line and the options are chosen, then each of the four       *)
(* functions is called at every index.                                     *)
(***************************************************************************)
MaxProbeLen == 4

ProbeLines ==
  UNION { [1..n -> Alphabet] : n \in 0..MaxProbeLen }
    \cup CuratedLines \cup PartialLines \cup ExampleLines

SkipOptions(opts) ==
  [suppressSkipMagicAfterMagic |-> opts.suppressSkipMagicAfterMagic,
   suppressSkipMagicAfterSkipMagic |-> opts.suppressSkipMagicAfterSkipMagic,
   suppressSkipMagicAfterSpace |-> opts.suppressSkipMagicAfterSpace]

InitProbe ==
  /\ chars \in ProbeLines
  /\ options \in MagicOptions
  /\ probed = <<>>
  /\ reads = <<>>
  /\ tags = <<>>
  /\ nesting = <<>>
  /\ pattern = <<>>
  /\ parsed = <<>>
  /\ settings = <<>>
  /\ rendered = <<>>
  /\ classifierCalls = 0
  /\ other = <<>>
  /\ otherTags = <<>>
  /\ algorithmKeys = <<>>
  /\ lessonKeys = <<>>
  /\ excludedKeys = <<>>
  /\ forcedKeys = <<>>
  /\ focusedKey = 0
  /\ toggled = 0
  /\ pc = "ready"

Probe ==
  /\ pc = "ready"
  /\ probed' =
       [index \in Indices(chars) |->
          [getMagicType |-> getMagicType(chars, index, options),
           wouldUseMagicKey |-> wouldUseMagicKey(chars, index),
           wouldUseSkipMagicKey |->
             wouldUseSkipMagicKey(chars, index, SkipOptions(options)),
           extractWord |-> extractWord(chars, index)]]
  /\ reads' =
       [index \in Indices(chars) |->
          [getMagicType |-> getMagicTypeReads(chars, index, options),
           wouldUseMagicKey |-> wouldUseMagicKeyReads(chars, index),
           wouldUseSkipMagicKey |->
             wouldUseSkipMagicKeyReads(chars, index, SkipOptions(options)),
           extractWord |-> extractWordReads(chars, index)]]
  /\ pc' = "probed"
  /\ UNCHANGED <<chars, options, tags, nesting, pattern, parsed, settings, rendered, classifierCalls, other, otherTags, algorithmKeys, lessonKeys, excludedKeys, forcedKeys, focusedKey, toggled>>

NextProbe == Probe

SpecProbe == InitProbe /\ [][NextProbe]_vars

(***************************************************************************)
(* Classifying two lines: a line, one modification of it and the options   *)
(* are chosen with word overrides disabled, then both lines are classified *)
(* at every index.                                                         *)
(***************************************************************************)
MaxWindowLen == 7

WindowAlphabet == {cp.a, cp.o, cp.space}

WindowLines == UNION { [1..n -> WindowAlphabet] : n \in 0..MaxWindowLen }

\* Another character of the alphabet; applied repeatedly it reaches them all.
NextChar(codePoint) ==
  IF codePoint = cp.a THEN cp.o
  ELSE IF codePoint = cp.o THEN cp.space
  ELSE cp.a

\* The line with one position changed, or one character appended, or its
\* last character removed. Any modification is a chain of these.
Modifications(line) ==
  { [line EXCEPT ![p] = NextChar(line[p])] : p \in 1..Len(line) }
    \cup { Append(line, cp.a) }
    \cup (IF Len(line) > 0 THEN { SubSeq(line, 1, Len(line) - 1) } ELSE {})

InitPair ==
  /\ chars \in WindowLines
  /\ other \in Modifications(chars)
  /\ options \in { opts \in MagicOptions : ~opts.magicKeyWordOverridesEnabled }
  /\ tags = <<>>
  /\ otherTags = <<>>
  /\ nesting = <<>>
  /\ pattern = <<>>
  /\ parsed = <<>>
  /\ settings = <<>>
  /\ rendered = <<>>
  /\ probed = <<>>
  /\ reads = <<>>
  /\ classifierCalls = 0
  /\ algorithmKeys = <<>>
  /\ lessonKeys = <<>>
  /\ excludedKeys = <<>>
  /\ forcedKeys = <<>>
  /\ focusedKey = 0
  /\ toggled = 0
  /\ pc = "ready"

ClassifyPair ==
  /\ pc = "ready"
  /\ tags' = [index \in Indices(chars) |-> getMagicType(chars, index, options)]
  /\ otherTags' = [index \in Indices(other) |-> getMagicType(other, index, options)]
  /\ pc' = "compared"
  /\ UNCHANGED <<chars, other, options, nesting, pattern, parsed, settings, rendered, probed, reads, classifierCalls, algorithmKeys, lessonKeys, excludedKeys, forcedKeys, focusedKey, toggled>>

NextPair == ClassifyPair

SpecPair == InitPair /\ [][NextPair]_vars

(***************************************************************************)
(* Lesson keys: the keys the lesson algorithm computed, and the manual      *)
(* overrides of the settings applied to them.                              *)
(***************************************************************************)
\* Code points that have a key in the lesson, and one that has none.
KeyCodes == {cp.a, cp.b, cp.c}
NoKeyCode == cp.z
CodePoints == KeyCodes \cup {NoKeyCode}

LessonKey == [isIncluded : BOOLEAN, isFocused : BOOLEAN, isForced : BOOLEAN]

asIncluded(key) == [key EXCEPT !.isIncluded = TRUE]

asExcluded(key) ==
  [key EXCEPT !.isIncluded = FALSE, !.isFocused = FALSE, !.isForced = FALSE]

asFocused(key) == [key EXCEPT !.isIncluded = TRUE, !.isFocused = TRUE]

\* Map.get(codePoint) != null
hasKey(keys, codePoint) == codePoint \in DOMAIN keys

RECURSIVE applyForced(_, _, _)
\* First loop of applyOverrides, from the n-th entry of forcedKeys on.
applyForced(keys, forced, n) ==
  IF n > Len(forced) THEN keys
  ELSE LET codePoint == forced[n] IN
       IF hasKey(keys, codePoint) /\ ~keys[codePoint].isIncluded
       THEN applyForced([keys EXCEPT ![codePoint] = asIncluded(@)], forced, n + 1)
       ELSE applyForced(keys, forced, n + 1)

RECURSIVE applyExcluded(_, _, _)
\* Second loop of applyOverrides, from the n-th entry of excludedKeys on.
applyExcluded(keys, excluded, n) ==
  IF n > Len(excluded) THEN keys
  ELSE LET codePoint == excluded[n] IN
       IF hasKey(keys, codePoint) /\ keys[codePoint].isIncluded
       THEN applyExcluded([keys EXCEPT ![codePoint] = asExcluded(@)], excluded, n + 1)
       ELSE applyExcluded(keys, excluded, n + 1)

\* Last step of applyOverrides: the focused-key override.
applyFocused(keys, focused) ==
  IF focused > 0
  THEN LET cleared ==
             [codePoint \in DOMAIN keys |-> [keys[codePoint] EXCEPT !.isFocused = FALSE]]
       IN  IF hasKey(cleared, focused) /\ cleared[focused].isIncluded
           THEN [cleared EXCEPT ![focused] = asFocused(@)]
           ELSE cleared
  ELSE keys

\* Variant: forced inclusions are applied after the exclusions.
applyOverrides_forcedLast(keys, excluded, forced, focused) ==
  applyFocused(applyForced(applyExcluded(keys, excluded, 1), forced, 1), focused)

applyOverrides(keys, excluded, forced, focused) ==
  applyFocused(applyExcluded(applyForced(keys, forced, 1), excluded, 1), focused)

includes(list, codePoint) == \E n \in 1..Len(list) : list[n] = codePoint

filter(list, codePoint) == SelectSeq(list, LAMBDA x : x # codePoint)

findIncludedKeys(keys) == { codePoint \in DOMAIN keys : keys[codePoint].isIncluded }

\* Keys as the lesson algorithm leaves them: built with include, exclude,
\* force and focus, so a focused or forced key is included; one key at most
\* is focused.
AlgorithmKeys ==
  { keys \in [KeyCodes -> LessonKey] :
      /\ \A codePoint \in KeyCodes :
           (keys[codePoint].isFocused \/ keys[codePoint].isForced)
             => keys[codePoint].isIncluded
      /\ Cardinality({ codePoint \in KeyCodes : keys[codePoint].isFocused }) <= 1 }

MaxListLen == 2

\* Values of the excludedKeys and forcedKeys settings: any short list of
\* code points, repeated entries and code points without a key included.
ListCodes == {cp.a, cp.b, NoKeyCode}

KeyLists == UNION { [1..n -> ListCodes] : n \in 0..MaxListLen }

(***************************************************************************)
(* useLessonKeys: the algorithm's keys and the three settings are chosen,   *)
(* then the overrides are applied.                                         *)
(***************************************************************************)
InitOverrides ==
  /\ algorithmKeys \in AlgorithmKeys
  /\ excludedKeys \in KeyLists
  /\ forcedKeys \in KeyLists
  /\ focusedKey \in {0} \cup CodePoints
  /\ lessonKeys = <<>>
  /\ toggled = 0
  /\ chars = <<>>
  /\ options = defaultMagicOptions
  /\ tags = <<>>
  /\ nesting = <<>>
  /\ pattern = <<>>
  /\ parsed = <<>>
  /\ settings = <<>>
  /\ rendered = <<>>
  /\ probed = <<>>
  /\ reads = <<>>
  /\ classifierCalls = 0
  /\ other = <<>>
  /\ otherTags = <<>>
  /\ pc = "ready"

ApplyOverrides ==
  /\ pc = "ready"
  /\ lessonKeys' = applyOverrides(algorithmKeys, excludedKeys, forcedKeys, focusedKey)
  /\ pc' = "applied"
  /\ UNCHANGED <<algorithmKeys, excludedKeys, forcedKeys, focusedKey, toggled, chars, options, tags, nesting, pattern, parsed, settings, rendered, probed, reads, classifierCalls, other, otherTags>>

NextOverrides == ApplyOverrides

SpecOverrides == InitOverrides /\ [][NextOverrides]_vars

(***************************************************************************)
(* Practice Controller: starting from empty override lists, keys are        *)
(* toggled; after every update of the settings the lesson keys are         *)
(* computed again from the algorithm's keys.                               *)
(***************************************************************************)
\* excludedKeys as handleToggleKey of the Controller writes it.
controllerNewExcludedKeys(keys, excluded, forced, codePoint) ==
  IF keys[codePoint].isIncluded /\ ~includes(excluded, codePoint)
  THEN Append(filter(excluded, codePoint), codePoint)
  ELSE filter(excluded, codePoint)

\* Variant: forcedKeys keeps the toggled code point.
controllerNewForcedKeys_noFilter(keys, excluded, forced, codePoint) ==
  IF ~keys[codePoint].isIncluded /\ ~includes(forced, codePoint)
  THEN Append(forced, codePoint)
  ELSE forced

\* forcedKeys as handleToggleKey of the Controller writes it.
controllerNewForcedKeys(keys, excluded, forced, codePoint) ==
  IF ~keys[codePoint].isIncluded /\ ~includes(forced, codePoint)
  THEN Append(filter(forced, codePoint), codePoint)
  ELSE filter(forced, codePoint)

InitController ==
  /\ algorithmKeys \in AlgorithmKeys
  /\ excludedKeys = <<>>
  /\ forcedKeys = <<>>
  /\ focusedKey \in {0} \cup CodePoints
  /\ lessonKeys = applyOverrides(algorithmKeys, <<>>, <<>>, focusedKey)
  /\ toggled = 0
  /\ chars = <<>>
  /\ options = defaultMagicOptions
  /\ tags = <<>>
  /\ nesting = <<>>
  /\ pattern = <<>>
  /\ parsed = <<>>
  /\ settings = <<>>
  /\ rendered = <<>>
  /\ probed = <<>>
  /\ reads = <<>>
  /\ classifierCalls = 0
  /\ other = <<>>
  /\ otherTags = <<>>
  /\ pc = "practice"

ControllerToggleKey ==
  /\ pc = "practice"
  /\ \E codePoint \in CodePoints :
       /\ toggled' = codePoint
       /\ IF ~hasKey(lessonKeys, codePoint)
          THEN UNCHANGED <<excludedKeys, forcedKeys, lessonKeys>>
          ELSE /\ excludedKeys' =
                    controllerNewExcludedKeys(lessonKeys, excludedKeys, forcedKeys, codePoint)
               /\ forcedKeys' =
                    controllerNewForcedKeys(lessonKeys, excludedKeys, forcedKeys, codePoint)
               /\ lessonKeys' =
                    applyOverrides(algorithmKeys, excludedKeys', forcedKeys', focusedKey)
  /\ UNCHANGED <<algorithmKeys, focusedKey, pc, chars, options, tags, nesting, pattern, parsed, settings, rendered, probed, reads, classifierCalls, other, otherTags>>

NextController == ControllerToggleKey

SpecController == InitController /\ [][NextController]_vars

(***************************************************************************)
(* Lesson preview of the settings page: keys are toggled and the focused    *)
(* key is set or cleared; after every update of the settings the lesson    *)
(* keys are computed again from the algorithm's keys.                      *)
(***************************************************************************)
\* Variant: the last included key may be disabled.
previewReturnsEarly_noGuard(keys, codePoint) ==
  FALSE

\* handleToggleKey of the preview returns before updating the settings.
previewReturnsEarly(keys, codePoint) ==
  keys[codePoint].isIncluded /\ Cardinality(findIncludedKeys(keys)) <= 1

\* Values of excludedKeys and forcedKeys the preview may find in the
\* settings: lists the toggles write, and lists with a repeated entry or
\* with a code point that has no key.
StartLists ==
  { <<>>, <<cp.a>>, <<cp.b>>, <<cp.b, cp.a>>, <<cp.a, cp.a>>, <<NoKeyCode, cp.c>> }

InitPreview ==
  /\ algorithmKeys \in AlgorithmKeys
  /\ excludedKeys \in StartLists
  /\ forcedKeys \in StartLists
  /\ focusedKey \in {0} \cup CodePoints
  /\ lessonKeys = applyOverrides(algorithmKeys, excludedKeys, forcedKeys, focusedKey)
  /\ findIncludedKeys(lessonKeys) # {}
  /\ toggled = 0
  /\ chars = <<>>
  /\ options = defaultMagicOptions
  /\ tags = <<>>
  /\ nesting = <<>>
  /\ pattern = <<>>
  /\ parsed = <<>>
  /\ settings = <<>>
  /\ rendered = <<>>
  /\ probed = <<>>
  /\ reads = <<>>
  /\ classifierCalls = 0
  /\ other = <<>>
  /\ otherTags = <<>>
  /\ pc = "preview"

PreviewToggleKey ==
  /\ pc = "preview"
  /\ \E codePoint \in CodePoints :
       /\ toggled' = codePoint
       /\ IF ~hasKey(lessonKeys, codePoint)
          THEN UNCHANGED <<excludedKeys, forcedKeys, lessonKeys>>
          ELSE IF previewReturnsEarly(lessonKeys, codePoint)
          THEN UNCHANGED <<excludedKeys, forcedKeys, lessonKeys>>
          ELSE /\ excludedKeys' =
                    (IF lessonKeys[codePoint].isIncluded
                     THEN Append(filter(excludedKeys, codePoint), codePoint)
                     ELSE filter(excludedKeys, codePoint))
               /\ forcedKeys' =
                    (IF lessonKeys[codePoint].isIncluded
                     THEN filter(forcedKeys, codePoint)
                     ELSE Append(filter(forcedKeys, codePoint), codePoint))
               /\ lessonKeys' =
                    applyOverrides(algorithmKeys, excludedKeys', forcedKeys', focusedKey)
  /\ UNCHANGED <<algorithmKeys, focusedKey, pc, chars, options, tags, nesting, pattern, parsed, settings, rendered, probed, reads, classifierCalls, other, otherTags>>

SetFocusedKey ==
  /\ pc = "preview"
  /\ \E codePoint \in KeyCodes :
       /\ focusedKey' = (IF focusedKey = codePoint THEN 0 ELSE codePoint)
       /\ lessonKeys' = applyOverrides(algorithmKeys, excludedKeys, forcedKeys, focusedKey')
  /\ toggled' = 0
  /\ UNCHANGED <<algorithmKeys, excludedKeys, forcedKeys, pc, chars, options, tags, nesting, pattern, parsed, settings, rendered, probed, reads, classifierCalls, other, otherTags>>

NextPreview == PreviewToggleKey \/ SetFocusedKey

SpecPreview == InitPreview /\ [][NextPreview]_vars

(***************************************************************************)
(* Properties.                                                             *)
(***************************************************************************)
InRange(index) == index >= 0 /\ index < Len(chars)

Positions == 0..(Len(chars) - 1)

\* A (trigger, current) pair matches a rule table: the table has an entry
\* for the trigger whose output is the current character, or it has no
\* entry for the trigger and the trigger is the current character.
RuleMatch(rules, trigger, current) ==
  \/ (trigger \in DOMAIN rules /\ rules[trigger] = current)
  \/ (trigger \notin DOMAIN rules /\ trigger = current)

\* The magic rule matches at a position of the line (trigger one back).
MagicMatchAt(index) ==
  /\ index >= 1 /\ index < Len(chars)
  /\ RuleMatch(MAGIC_RULES, toLowerCase(chars[index]), toLowerCase(chars[index + 1]))

\* The skip-magic rule matches at a position of the line (trigger two back).
SkipMatchAt(index) ==
  /\ index >= 2 /\ index < Len(chars)
  /\ RuleMatch(SKIP_MAGIC_RULES, toLowerCase(chars[index - 1]), toLowerCase(chars[index + 1]))

SuppressionsOff ==
  /\ ~options.suppressSkipMagicAfterMagic
  /\ ~options.suppressSkipMagicAfterSkipMagic
  /\ ~options.suppressMagicAfterSkipMagic
  /\ ~options.suppressSkipMagicAfterSpace

SuppressionsOn ==
  /\ options.suppressSkipMagicAfterMagic
  /\ options.suppressSkipMagicAfterSkipMagic
  /\ options.suppressMagicAfterSkipMagic
  /\ options.suppressSkipMagicAfterSpace

\* C1: for every line (the empty one included), every combination of the
\* five options and every index below 0 or at or beyond the line's length,
\* getMagicType returns null.
C1_OutOfRangeIsNull ==
  pc = "done" =>
    \A index \in DOMAIN tags : ~InRange(index) => tags[index] = "null"

\* A line whose last character repeats the one before it: classifying the
\* index one past the end, and the index -1, yields null.
C1_Witness ==
  /\ pc = "done"
  /\ chars = <<cp.e, cp.e>>
  /\ options = defaultMagicOptions
  /\ tags[1] = "magic"
  /\ tags[2] = "null"
  /\ tags[-1] = "null"

\* The tags the curated patterns give, position by position.
CuratedTags ==
  (queue :> <<"null", "null", "skipMagic", "null", "skipMagic">>) @@
  (institute :> <<"null", "null", "null", "null", "null", "null", "null",
                  "null", "skipMagic">>) @@
  (amusement :> <<"null", "null", "null", "null", "skipMagic", "null",
                  "null", "null", "null">>) @@
  (quieted :> <<"null", "null", "null", "skipMagic", "null", "null", "null">>)

\* The word occupies positions start .. start + Len(word) - 1 of the line
\* (ignoring case) and is delimited by whitespace or the line's ends.
WholeTokenAt(word, start) ==
  /\ start >= 0 /\ start + Len(word) <= Len(chars)
  /\ \A n \in 1..Len(word) : toLowerCase(chars[start + n]) = word[n]
  /\ start = 0 \/ chars[start] \in {32, 9, 10}
  /\ start + Len(word) = Len(chars) \/ chars[start + Len(word) + 1] \in {32, 9, 10}

\* C2: with word overrides enabled, every position of a curated word that
\* is a whole whitespace-delimited token gets exactly the tag of the word's
\* pattern at that position, whatever the four suppression flags and the
\* surrounding characters are; the override step decides every such
\* position, none is left to rule evaluation.
C2_CuratedWordGetsPattern ==
  (pc = "done" /\ options.magicKeyWordOverridesEnabled) =>
    \A word \in CuratedWords : \A start \in Positions :
      WholeTokenAt(word, start) =>
        \A p \in 0..(Len(word) - 1) :
          /\ tags[start + p] = CuratedTags[word][p + 1]
          /\ overrideValue(chars, start + p, options) # "undefined"

\* "e amusement e" with every suppression off: position 6 of the word is
\* forced to null although the skip-magic rule (e, repeated two back)
\* matches there, and position 4 is forced to skipMagic.
C2_Witness ==
  /\ pc = "done"
  /\ options.magicKeyWordOverridesEnabled
  /\ SuppressionsOff
  /\ chars = <<cp.e, cp.space>> \o amusement \o <<cp.space, cp.e>>
  /\ SkipMatchAt(8)
  /\ tags[8] = "null"
  /\ tags[6] = "skipMagic"

\* C3: for the line "queue", with word overrides enabled indices 2 and 4 are
\* skipMagic; with word overrides disabled and the four suppressions
\* enabled, index 4 is magic and the word is tagged qu$u#.
C3_Queue ==
  (pc = "done" /\ chars = queue) =>
    /\ options.magicKeyWordOverridesEnabled =>
         (tags[2] = "skipMagic" /\ tags[4] = "skipMagic")
    /\ (~options.magicKeyWordOverridesEnabled /\ SuppressionsOn) =>
         /\ tags[4] = "magic"
         /\ [p \in 1..5 |-> tags[p - 1]]
              = <<"null", "null", "skipMagic", "null", "magic">>

\* "queue" classified by the rules alone, all four suppressions enabled.
C3_Witness ==
  /\ pc = "done"
  /\ chars = queue
  /\ ~options.magicKeyWordOverridesEnabled
  /\ SuppressionsOn
  /\ tags[4] = "magic"
  /\ tags[2] = "skipMagic"

\* C4: index 0 is tagged null for every line and every combination of the
\* five options, also when the line starts with a curated word and word
\* overrides are enabled.
C4_IndexZeroIsNull ==
  pc = "done" => tags[0] = "null"

\* A line that starts with a curated word, overrides enabled.
C4_Witness ==
  /\ pc = "done"
  /\ options.magicKeyWordOverridesEnabled
  /\ chars = quieted \o <<cp.space, cp.e>>
  /\ tags[0] = "null"
  /\ tags[3] = "skipMagic"

chaos == <<cp.c, cp.h, cp.a, cp.o, cp.s>>

\* C5: with the four suppressions off and word overrides disabled, a
\* position is skipMagic when the skip-magic rule matches there, otherwise
\* magic when the magic rule matches there, otherwise null; the result is
\* that of the option-less classifier, and index 3 of "chaos" is magic.
C5_NoSuppressionIsPlainRules ==
  (pc = "done" /\ SuppressionsOff /\ ~options.magicKeyWordOverridesEnabled) =>
    /\ \A index \in DOMAIN tags :
         /\ tags[index] = getMagicTypeV1(chars, index)
         /\ tags[index] = IF SkipMatchAt(index) THEN "skipMagic"
                          ELSE IF MagicMatchAt(index) THEN "magic"
                          ELSE "null"
    /\ chars = chaos => tags[3] = "magic"

\* "aao": at index 2 both rules match (a -> o one back and two back) and
\* the tag is skipMagic.
C5_Witness ==
  /\ pc = "done"
  /\ SuppressionsOff
  /\ ~options.magicKeyWordOverridesEnabled
  /\ chars = <<cp.a, cp.a, cp.o>>
  /\ SkipMatchAt(2) /\ MagicMatchAt(2)
  /\ tags[2] = "skipMagic"
noSkipSuppression ==
  [suppressSkipMagicAfterMagic |-> FALSE,
   suppressSkipMagicAfterSkipMagic |-> FALSE,
   suppressSkipMagicAfterSpace |-> FALSE]

\* C6: a (trigger, current) pair matches a rule table exactly when the table
\* has an entry for the lowercased trigger whose output is the lowercased
\* current character, or has no entry for the trigger and the two are equal;
\* the rule tests of getMagicType and of the two helper predicates all
\* decide it so, each table on its own.
C6_MatchIsEntryOrRepeat ==
  (pc = "done" /\ SuppressionsOff /\ ~options.magicKeyWordOverridesEnabled) =>
    \A index \in Positions :
      /\ (tags[index] = "skipMagic") <=> SkipMatchAt(index)
      /\ ~SkipMatchAt(index) => ((tags[index] = "magic") <=> MagicMatchAt(index))
      /\ wouldUseMagicKey(chars, index) <=> MagicMatchAt(index)
      /\ wouldUseSkipMagicKey(chars, index, noSkipSuppression) <=> SkipMatchAt(index)

\* "Aaoo": the doubled a is not a magic match (a -> o exists), the doubled o
\* is one by repetition in the magic table although o has a skip-magic entry.
C6_Witness ==
  /\ pc = "done"
  /\ SuppressionsOff
  /\ ~options.magicKeyWordOverridesEnabled
  /\ chars = <<cp.A, cp.a, cp.e, cp.o, cp.o>>
  /\ tags[1] = "null"
  /\ ~SkipMatchAt(4)
  /\ tags[4] = "magic"

\* C7: with suppressSkipMagicAfterMagic enabled, a position two after a
\* position tagged magic is never tagged skipMagic, whatever the other
\* options are.
C7_NoSkipMagicTwoAfterMagic ==
  (pc = "done" /\ options.suppressSkipMagicAfterMagic) =>
    \A index \in Positions :
      (index >= 2 /\ tags[index - 2] = "magic") => tags[index] # "skipMagic"

\* ASSASSIN: index 2 is magic (repeated S) and index 4, where the skip-magic
\* rule matches on that S, is not tagged skipMagic.
C7_Witness ==
  /\ pc = "done"
  /\ options.suppressSkipMagicAfterMagic
  /\ ~options.suppressSkipMagicAfterSkipMagic
  /\ ~options.suppressSkipMagicAfterSpace
  /\ chars = <<cp.A, cp.S, cp.S, cp.A, cp.S, cp.S, cp.I, cp.N>>
  /\ tags[2] = "magic"
  /\ SkipMatchAt(4)
  /\ tags[4] = "null"

\* A skip-magic rule match at a position that neither the after-magic nor
\* the after-space suppression vetoes under the current options.
UnvetoedSkipMatch(index) ==
  /\ SkipMatchAt(index)
  /\ ~(options.suppressSkipMagicAfterMagic /\ MagicMatchAt(index - 2))
  /\ ~(options.suppressSkipMagicAfterSpace /\ chars[index] = 32)

AfterSkipMagicVeto(index) ==
  options.suppressSkipMagicAfterSkipMagic /\ UnvetoedSkipMatch(index - 1)

AfterSpaceVeto(index) ==
  options.suppressSkipMagicAfterSpace /\ index >= 1 /\ chars[index] = 32

\* C8: with word overrides disabled, whenever the skip-magic rule matches
\* at a position, neither the after-skip-magic nor the after-space
\* suppression vetoes it, and the position is still not tagged skipMagic,
\* the position two back is tagged magic.
C8_WithheldOnlyAfterMagicTag ==
  (pc = "done" /\ ~options.magicKeyWordOverridesEnabled) =>
    \A index \in Positions :
      ( /\ SkipMatchAt(index)
        /\ ~AfterSkipMagicVeto(index)
        /\ ~AfterSpaceVeto(index)
        /\ tags[index] # "skipMagic" ) => tags[index - 2] = "magic"

\* C9: with suppressSkipMagicAfterSkipMagic enabled no two adjacent
\* positions of a line are both tagged skipMagic, whatever the other options
\* are (word overrides included).
C9_NoAdjacentSkipMagic ==
  (pc = "done" /\ options.suppressSkipMagicAfterSkipMagic) =>
    \A index \in Positions :
      index >= 1 => ~(tags[index - 1] = "skipMagic" /\ tags[index] = "skipMagic")

\* QUEEN: index 2 is skipMagic and index 3, where the skip-magic rule
\* matches too (u -> e), is not.
C9_Witness ==
  /\ pc = "done"
  /\ options.suppressSkipMagicAfterSkipMagic
  /\ ~options.suppressSkipMagicAfterMagic
  /\ ~options.suppressMagicAfterSkipMagic
  /\ chars = <<cp.Q, cp.U, cp.E, cp.E, cp.N>>
  /\ tags[2] = "skipMagic"
  /\ SkipMatchAt(3)
  /\ tags[3] = "magic"

\* The position belongs to a curated word that is a whole token, and word
\* overrides are enabled.
Overridden(index) ==
  /\ options.magicKeyWordOverridesEnabled
  /\ \E word \in CuratedWords : \E start \in Positions :
       WholeTokenAt(word, start) /\ index >= start /\ index < start + Len(word)

\* C10: with suppressSkipMagicAfterSkipMagic enabled, rule evaluation tags a
\* position skipMagic exactly when it has a skip-magic match that the other
\* two suppressions do not veto and the position before it has no such
\* match; the veto applies even when the position before it was itself
\* denied the skipMagic tag by this veto.
C10_VetoedByUnvetoedMatchBefore ==
  (pc = "done" /\ options.suppressSkipMagicAfterSkipMagic) =>
    \A index \in Positions :
      ~Overridden(index) =>
        /\ UnvetoedSkipMatch(index - 1) => tags[index] # "skipMagic"
        /\ (tags[index] = "skipMagic") <=>
             (UnvetoedSkipMatch(index) /\ ~UnvetoedSkipMatch(index - 1))

\* A run of one repeated letter without a skip-magic entry: indices 2, 3 and
\* 4 all have an unvetoed skip-magic match, only index 2 is tagged
\* skipMagic, and index 4 is vetoed although index 3 is not tagged.
C10_Witness ==
  /\ pc = "done"
  /\ options.suppressSkipMagicAfterSkipMagic
  /\ ~options.suppressSkipMagicAfterMagic
  /\ chars = <<cp.e, cp.e, cp.e, cp.e, cp.e>>
  /\ UnvetoedSkipMatch(2) /\ UnvetoedSkipMatch(3) /\ UnvetoedSkipMatch(4)
  /\ tags[2] = "skipMagic"
  /\ tags[3] # "skipMagic"
  /\ tags[4] # "skipMagic"

\* C11: with suppressMagicAfterSkipMagic enabled, a position directly after
\* a position tagged skipMagic is never tagged magic, whatever the other
\* options are.
C11_NoMagicAfterSkipMagic ==
  (pc = "done" /\ options.suppressMagicAfterSkipMagic) =>
    \A index \in Positions :
      (index >= 1 /\ tags[index - 1] = "skipMagic") => tags[index] # "magic"

\* NINETEEN: index 5 is skipMagic (E repeated two back) and index 6, where
\* the magic rule matches (E repeated), is left untagged.
C11_Witness ==
  /\ pc = "done"
  /\ options.suppressMagicAfterSkipMagic
  /\ chars = <<cp.N, cp.I, cp.N, cp.E, cp.T, cp.E, cp.E, cp.N>>
  /\ tags[5] = "skipMagic"
  /\ MagicMatchAt(6)
  /\ tags[6] = "null"

\* Word separators as used by word extraction.
IsSeparator(codePoint) == codePoint \in {32, 9, 10}

\* The position is the first character of a word that follows a separator.
WordStartAfterSeparator(index) ==
  /\ index >= 1 /\ index < Len(chars)
  /\ IsSeparator(chars[index])
  /\ ~IsSeparator(chars[index + 1])

\* C12: with suppressSkipMagicAfterSpace enabled, no first character of a
\* word whose predecessor is a word separator (space, tab or newline) is
\* tagged skipMagic, whatever the other options are.
C12_NoSkipMagicAtWordStart ==
  (pc = "done" /\ options.suppressSkipMagicAfterSpace) =>
    \A index \in Positions :
      WordStartAfterSeparator(index) => tags[index] # "skipMagic"

\* C13: classifying any index of any line under any options ends, and the
\* evaluation of wouldUseSkipMagicKey never nests more than two deep: the
\* call made by getMagicType and at most one nested call.
C13_NestingAtMostTwo ==
  pc = "done" => \A index \in DOMAIN nesting : nesting[index] <= 2

\* A run of one repeated letter: at its last index the magic suppression
\* calls the predicate with the caller's flags and that call nests once.
C13_Witness ==
  /\ pc = "done"
  /\ options.suppressSkipMagicAfterSkipMagic
  /\ options.suppressMagicAfterSkipMagic
  /\ ~options.suppressSkipMagicAfterMagic
  /\ chars = <<cp.e, cp.e, cp.e, cp.e, cp.e, cp.e, cp.e, cp.e>>
  /\ nesting[7] = 2
  /\ nesting[2] = 0

\* C14: parseOverridePattern returns one element per pattern character, in
\* order: magic exactly for '#', skipMagic exactly for '$', null for every
\* other character, and never the pass-through value undefined.
C14_ParsePositionwise ==
  pc = "parsed" =>
    /\ Len(parsed) = Len(pattern)
    /\ \A n \in 1..Len(pattern) :
         /\ (parsed[n] = "magic") <=> (pattern[n] = 35)
         /\ (parsed[n] = "skipMagic") <=> (pattern[n] = 36)
         /\ (parsed[n] = "null") <=> (pattern[n] \notin {35, 36})
         /\ parsed[n] # "undefined"

\* A pattern with a letter, the two marks and a space.
C14_Witness ==
  /\ pc = "parsed"
  /\ pattern = <<cp.q, cp.hash, cp.dollar, cp.space>>
  /\ parsed = <<"null", "magic", "skipMagic", "null">>

\* The lowercase and uppercase forms of a character (Unicode simple case
\* mapping, for the characters of the lines above).
LowerForm(c) == IF c >= 65 /\ c <= 90 THEN c + 32 ELSE c

UpperForm(c) == IF c >= 97 /\ c <= 122 THEN c - 32
                ELSE IF c = 305 THEN 73
                ELSE c

LowerLine == [n \in 1..Len(chars) |-> LowerForm(chars[n])]

UpperLine == [n \in 1..Len(chars) |-> UpperForm(chars[n])]

\* C15 as claimed: every index of a line gets the same tag as in the line
\* with every letter replaced by its lowercase form, and as in the line with
\* every letter replaced by its uppercase form.
C15_SameTagInEitherCase ==
  pc = "done" =>
    \A index \in DOMAIN tags :
      /\ tags[index] = getMagicType(LowerLine, index, options)
      /\ tags[index] = getMagicType(UpperLine, index, options)

\* Every letter of the line is one whose uppercase form lowercases back to
\* the letter's lowercase form (every ASCII letter is; dotless i is not).
CaseRoundTrips ==
  \A n \in 1..Len(chars) : LowerForm(UpperForm(chars[n])) = LowerForm(chars[n])

\* C15 as amended: the tag is that of the lowercased line, and that of the
\* uppercased line when the line's letters round-trip through uppercase.
C15_SameTagInLowerAndRoundTripUpper ==
  pc = "done" =>
    \A index \in DOMAIN tags :
      /\ tags[index] = getMagicType(LowerLine, index, options)
      /\ CaseRoundTrips => tags[index] = getMagicType(UpperLine, index, options)

\* ASSASSIN in capitals: the repeated S is magic as in "assassin", and the
\* line differs from its lowercase form.
C15_Witness ==
  /\ pc = "done"
  /\ chars = <<cp.A, cp.S, cp.S, cp.A, cp.S, cp.S, cp.I, cp.N>>
  /\ LowerLine # chars
  /\ CaseRoundTrips
  /\ tags[2] = "magic"
  /\ getMagicType(LowerLine, 2, options) = "magic"

\* The tags of the line's positions, as a sequence.
Tagging == [p \in 1..Len(chars) |-> tags[p - 1]]

ASSASSIN == <<cp.A, cp.S, cp.S, cp.A, cp.S, cp.S, cp.I, cp.N>>
QUEEN == <<cp.Q, cp.U, cp.E, cp.E, cp.N>>
NINETEEN == <<cp.N, cp.I, cp.N, cp.E, cp.T, cp.E, cp.E, cp.N>>
SIT_TIE == <<cp.S, cp.I, cp.T, cp.space, cp.T, cp.I, cp.E>>

\* C16: with the other four options enabled, ASSASSIN is tagged AS#AS#IN
\* when suppressSkipMagicAfterMagic is enabled and AS#A$#IN when it is not.
C16_Assassin ==
  ( /\ pc = "done"
    /\ chars = ASSASSIN
    /\ options.suppressSkipMagicAfterSkipMagic
    /\ options.suppressMagicAfterSkipMagic
    /\ options.suppressSkipMagicAfterSpace
    /\ options.magicKeyWordOverridesEnabled ) =>
    /\ options.suppressSkipMagicAfterMagic =>
         Tagging = <<"null", "null", "magic", "null", "null", "magic", "null", "null">>
    /\ ~options.suppressSkipMagicAfterMagic =>
         Tagging = <<"null", "null", "magic", "null", "skipMagic", "magic", "null", "null">>

\* C17: with the other four options enabled, QUEEN is tagged QU$EN when
\* suppressSkipMagicAfterSkipMagic is enabled and QU$$N when it is not.
C17_Queen ==
  ( /\ pc = "done"
    /\ chars = QUEEN
    /\ options.suppressSkipMagicAfterMagic
    /\ options.suppressMagicAfterSkipMagic
    /\ options.suppressSkipMagicAfterSpace
    /\ options.magicKeyWordOverridesEnabled ) =>
    /\ options.suppressSkipMagicAfterSkipMagic =>
         Tagging = <<"null", "null", "skipMagic", "null", "null">>
    /\ ~options.suppressSkipMagicAfterSkipMagic =>
         Tagging = <<"null", "null", "skipMagic", "skipMagic", "null">>

\* QUEEN with suppressSkipMagicAfterSkipMagic disabled, the rest enabled.
C17_Witness ==
  /\ pc = "done"
  /\ chars = QUEEN
  /\ options = [defaultMagicOptions EXCEPT !.suppressSkipMagicAfterSkipMagic = FALSE]
  /\ tags[2] = "skipMagic"
  /\ tags[3] = "skipMagic"

\* C18: with the other four options enabled, NINETEEN is tagged NI$ET$EN
\* when suppressMagicAfterSkipMagic is enabled and NI$ET$#N when it is not.
C18_Nineteen ==
  ( /\ pc = "done"
    /\ chars = NINETEEN
    /\ options.suppressSkipMagicAfterMagic
    /\ options.suppressSkipMagicAfterSkipMagic
    /\ options.suppressSkipMagicAfterSpace
    /\ options.magicKeyWordOverridesEnabled ) =>
    /\ options.suppressMagicAfterSkipMagic =>
         Tagging = <<"null", "null", "skipMagic", "null", "null", "skipMagic", "null", "null">>
    /\ ~options.suppressMagicAfterSkipMagic =>
         Tagging = <<"null", "null", "skipMagic", "null", "null", "skipMagic", "magic", "null">>

\* NINETEEN with suppressMagicAfterSkipMagic disabled, the rest enabled.
C18_Witness ==
  /\ pc = "done"
  /\ chars = NINETEEN
  /\ options = [defaultMagicOptions EXCEPT !.suppressMagicAfterSkipMagic = FALSE]
  /\ tags[5] = "skipMagic"
  /\ tags[6] = "magic"

\* C19: with the other four options enabled, "SIT TIE" has no tagged
\* position when suppressSkipMagicAfterSpace is enabled; when it is not, the
\* only tagged position is index 4, the first character after the space,
\* and it is skipMagic.
C19_SitTie ==
  ( /\ pc = "done"
    /\ chars = SIT_TIE
    /\ options.suppressSkipMagicAfterMagic
    /\ options.suppressSkipMagicAfterSkipMagic
    /\ options.suppressMagicAfterSkipMagic
    /\ options.magicKeyWordOverridesEnabled ) =>
    /\ options.suppressSkipMagicAfterSpace =>
         \A index \in Positions : tags[index] = "null"
    /\ ~options.suppressSkipMagicAfterSpace =>
         \A index \in Positions :
           tags[index] = IF index = 4 THEN "skipMagic" ELSE "null"

\* "SIT TIE" with suppressSkipMagicAfterSpace disabled, the rest enabled.
C19_Witness ==
  /\ pc = "done"
  /\ chars = SIT_TIE
  /\ options = [defaultMagicOptions EXCEPT !.suppressSkipMagicAfterSpace = FALSE]
  /\ SkipMatchAt(4)
  /\ tags[4] = "skipMagic"

\* The five classifier options as the settings hold them.
SettingsOptions ==
  [suppressSkipMagicAfterMagic |-> settings.suppressSkipMagicAfterMagic,
   suppressSkipMagicAfterSkipMagic |-> settings.suppressSkipMagicAfterSkipMagic,
   suppressMagicAfterSkipMagic |-> settings.suppressMagicAfterSkipMagic,
   suppressSkipMagicAfterSpace |-> settings.suppressSkipMagicAfterSpace,
   magicKeyWordOverridesEnabled |-> settings.magicKeyWordOverridesEnabled]

\* The highlight a tag stands for.
StyleOf(tag) ==
  CASE tag = "magic" -> MAGIC_BACKGROUND_COLOR
    [] tag = "skipMagic" -> SKIP_MAGIC_BACKGROUND_COLOR
    [] OTHER -> "undefined"

\* C20: when highlighting is shown, the highlight of every character of a
\* rendered line is the one of getMagicType(line, index, the settings' five
\* flags), so the rendering follows all five settings.
C20_RenderedTagUsesFiveOptions ==
  (pc = "rendered" /\ shouldShowMagicHighlighting(settings)) =>
    /\ Len(rendered) = Len(chars)
    /\ \A index \in 0..(Len(chars) - 1) :
         rendered[index + 1] = StyleOf(getMagicType(chars, index, SettingsOptions))

\* C21: each of the four functions, called with any index (inside the line
\* or outside it) and any option combination on any line, the empty one
\* included, reads only positions inside [0, length) and returns a value
\* of its result type.
C21_TotalAndInBounds ==
  pc = "probed" =>
    \A index \in Indices(chars) :
      /\ reads[index].getMagicType \subseteq 0..(Len(chars) - 1)
      /\ reads[index].wouldUseMagicKey \subseteq 0..(Len(chars) - 1)
      /\ reads[index].wouldUseSkipMagicKey \subseteq 0..(Len(chars) - 1)
      /\ reads[index].extractWord \subseteq 0..(Len(chars) - 1)
      /\ probed[index].getMagicType \in {"null", "magic", "skipMagic"}
      /\ probed[index].wouldUseMagicKey \in BOOLEAN
      /\ probed[index].wouldUseSkipMagicKey \in BOOLEAN
      /\ probed[index].extractWord.isNull \in BOOLEAN

\* A curated word probed below, inside and above its positions: inside, the
\* classifier reads the whole word; at the last position the helpers read
\* back to the first.
C21_Witness ==
  /\ pc = "probed"
  /\ chars = queue
  /\ options = defaultMagicOptions
  /\ reads[2].extractWord = 0..4
  /\ reads[2].getMagicType = 0..4
  /\ reads[4].wouldUseSkipMagicKey # {}
  /\ reads[5].getMagicType = {}
  /\ reads[-1].extractWord = {}

\* Letters among the code points of the lines.
IsLetter(codePoint) ==
  codePoint \in (65..90) \cup (97..122) \cup {cp.dotlessI}

\* C22 as stated: a whitespace character is never tagged, and the character
\* before a magic tag is always a letter.
C22_NonLettersOnlyInSkipTable ==
  pc = "done" =>
    \A index \in Positions :
      /\ IsSeparator(chars[index + 1]) => tags[index] = "null"
      /\ (tags[index] = "magic" /\ index >= 1) => IsLetter(chars[index])

\* C22, amended: non-letters also take part through the repeat rule. A
\* whitespace character is tagged magic only when it repeats the character
\* before it and skipMagic only when it repeats the character two positions
\* before it; a non-letter is the trigger of a magic tag only for a
\* repetition of itself.
C22_NonLettersOnlyBySkipTableOrRepeat ==
  pc = "done" =>
    \A index \in Positions :
      /\ (IsSeparator(chars[index + 1]) /\ tags[index] = "magic") =>
           (index >= 1 /\ chars[index] = chars[index + 1])
      /\ (IsSeparator(chars[index + 1]) /\ tags[index] = "skipMagic") =>
           (index >= 2 /\ chars[index - 1] = chars[index + 1])
      /\ (tags[index] = "magic" /\ index >= 1 /\ ~IsLetter(chars[index])) =>
           chars[index] = chars[index + 1]

\* A doubled comma: the second comma is magic by repetition of a non-letter.
C22_Witness ==
  /\ pc = "done"
  /\ chars = <<cp.e, cp.comma, cp.comma>>
  /\ tags[2] = "magic"

\* C23: unless the layout is Afterburner and magicKeyHighlighting is on,
\* rendering a line makes no call of the classifier and gives no character
\* a magic or skip-magic background; with both, every character is
\* classified once.
C23_HighlightOnlyWithLayoutAndSetting ==
  pc = "rendered" =>
    IF settings.layout = EN_AFTERBURNER /\ settings.magicKeyHighlighting
    THEN classifierCalls = Len(chars)
    ELSE /\ classifierCalls = 0
         /\ Len(rendered) = Len(chars)
         /\ \A n \in 1..Len(rendered) :
              rendered[n] \notin {MAGIC_BACKGROUND_COLOR, SKIP_MAGIC_BACKGROUND_COLOR}

\* QUEEN, which has a skip-magic match, rendered with the setting on but
\* another layout selected.
C23_Witness ==
  /\ pc = "rendered"
  /\ chars = QUEEN
  /\ settings.layout = "en-us"
  /\ settings.magicKeyHighlighting
  /\ classifierCalls = 0
  /\ rendered = <<"undefined", "undefined", "undefined", "undefined", "undefined">>

\* C24: with word overrides disabled, whatever suppressMagicAfterSkipMagic
\* is, wouldUseSkipMagicKey with the three skip-related flags is true at an
\* index exactly when getMagicType with the same flags returns skipMagic.
C24_HelperAgreesOnSkipMagic ==
  (pc = "probed" /\ ~options.magicKeyWordOverridesEnabled) =>
    \A index \in Indices(chars) :
      probed[index].wouldUseSkipMagicKey
        <=> (probed[index].getMagicType = "skipMagic")

\* NINETEEN with every suppression on: the helper and the classifier accept
\* index 2 and both turn down index 3.
C24_Witness ==
  /\ pc = "probed"
  /\ chars = NINETEEN
  /\ options = [defaultMagicOptions EXCEPT !.magicKeyWordOverridesEnabled = FALSE]
  /\ probed[2].wouldUseSkipMagicKey
  /\ probed[2].getMagicType = "skipMagic"
  /\ ~probed[3].wouldUseSkipMagicKey

\* The two lines differ at a position: the characters differ, or only one
\* of the lines has the position.
DiffersAt(p) ==
  IF p < Len(chars) /\ p < Len(other)
  THEN chars[p + 1] # other[p + 1]
  ELSE p < Len(chars) \/ p < Len(other)

\* C25: with word overrides disabled, two lines that differ only at
\* positions greater than i or less than i - 5 (the end of the line
\* included) have the same tag at i.
C25_TagDependsOnWindowBehind ==
  pc = "compared" =>
    \A i \in 0..(Len(chars) - 1) :
      ( /\ i < Len(other)
        /\ \A p \in 0..(Len(chars) + Len(other)) :
             DiffersAt(p) => (p > i \/ p < i - 5) )
      => tags[i] = otherTags[i]

\* Two lines of seven characters that differ in the first: the tag of the
\* last position, six positions on, is skipMagic in both.
C25_Witness ==
  /\ pc = "compared"
  /\ Len(chars) = 7
  /\ Len(other) = 7
  /\ chars[1] # other[1]
  /\ tags[6] = "skipMagic"
  /\ otherTags[6] = "skipMagic"
  /\ options.suppressSkipMagicAfterMagic
  /\ options.suppressSkipMagicAfterSkipMagic
  /\ options.suppressMagicAfterSkipMagic

\* The position lies in a curated word that is a whole token of the line.
InCuratedToken(index) ==
  \E word \in CuratedWords : \E start \in Positions :
    WholeTokenAt(word, start) /\ index >= start /\ index < start + Len(word)

\* C26: a position that does not lie in a whole-token occurrence of a
\* curated word (compared ignoring case) is tagged as the rules alone tag it,
\* whether word overrides are enabled or not; so is every position that is
\* itself a space, tab or newline.
C26_OverrideOnlyForWholeToken ==
  pc = "done" =>
    \A index \in Positions :
      (~InCuratedToken(index) \/ IsSeparator(chars[index + 1])) =>
        tags[index] = getMagicType(chars, index,
                        [options EXCEPT !.magicKeyWordOverridesEnabled = FALSE])

\* "queue," with everything enabled: the token is longer than the curated
\* word, and its index 4 is magic as the rules say, not skipMagic as the
\* word's pattern says.
C26_Witness ==
  /\ pc = "done"
  /\ chars = queue \o <<cp.comma>>
  /\ options = defaultMagicOptions
  /\ ~InCuratedToken(4)
  /\ tags[4] = "magic"

\* The code point is an entry of the list.
InList(list, codePoint) == \E n \in DOMAIN list : list[n] = codePoint

\* The keys that are focused.
FocusedSet(keys) == { codePoint \in DOMAIN keys : keys[codePoint].isFocused }

\* C27: after applyOverrides, every existing key in excludedKeys is not
\* included, not focused and not forced, also when it is in forcedKeys or
\* the algorithm included it; every existing key in forcedKeys and not in
\* excludedKeys is included; a key in neither list keeps its inclusion; a
\* code point without a key gets none.
C27_ExclusionsTakePrecedence ==
  pc = "applied" =>
    /\ DOMAIN lessonKeys = KeyCodes
    /\ \A codePoint \in KeyCodes :
         /\ InList(excludedKeys, codePoint) =>
              /\ ~lessonKeys[codePoint].isIncluded
              /\ ~lessonKeys[codePoint].isFocused
              /\ ~lessonKeys[codePoint].isForced
         /\ (InList(forcedKeys, codePoint) /\ ~InList(excludedKeys, codePoint)) =>
              lessonKeys[codePoint].isIncluded
         /\ (~InList(forcedKeys, codePoint) /\ ~InList(excludedKeys, codePoint)) =>
              lessonKeys[codePoint].isIncluded = algorithmKeys[codePoint].isIncluded

\* Key a is in both lists, next to a code point without a key, and the
\* algorithm had it included, focused and forced: it ends up excluded.
C27_Witness ==
  /\ pc = "applied"
  /\ excludedKeys = <<cp.a, NoKeyCode>>
  /\ forcedKeys = <<NoKeyCode, cp.a>>
  /\ algorithmKeys[cp.a] = [isIncluded |-> TRUE, isFocused |-> TRUE, isForced |-> TRUE]
  /\ lessonKeys[cp.a] = [isIncluded |-> FALSE, isFocused |-> FALSE, isForced |-> FALSE]

\* C28: the focused-key override is applied only if focusedKey > 0 names an
\* existing key that is included after the forced and excluded overrides,
\* and then exactly that key is focused; when focusedKey is 0, names no key
\* or names an excluded key, the key the algorithm had focused is left
\* focused (unless the exclusions took it out).
C28_FocusOverrideOnlyForIncludedKey ==
  pc = "applied" =>
    IF focusedKey > 0 /\ focusedKey \in KeyCodes /\ lessonKeys[focusedKey].isIncluded
    THEN FocusedSet(lessonKeys) = {focusedKey}
    ELSE FocusedSet(lessonKeys) =
           { codePoint \in FocusedSet(algorithmKeys) : lessonKeys[codePoint].isIncluded }

\* No code point is in both lists.
ListsDisjoint(excluded, forced) ==
  \A codePoint \in CodePoints :
    ~(InList(excluded, codePoint) /\ InList(forced, codePoint))

\* No code point is twice in the list.
DuplicateFree(list) ==
  \A m, n \in DOMAIN list : list[m] = list[n] => m = n

\* One step of the Controller that toggles an existing key: the key's
\* inclusion flips, the other keys' entries in both lists stay, and the
\* lists are disjoint and duplicate-free afterwards.
ToggleFlipsKey ==
  (pc = "practice" /\ toggled' \in KeyCodes) =>
    /\ lessonKeys'[toggled'].isIncluded = ~lessonKeys[toggled'].isIncluded
    /\ \A codePoint \in CodePoints \ {toggled'} :
         /\ InList(excludedKeys', codePoint) = InList(excludedKeys, codePoint)
         /\ InList(forcedKeys', codePoint) = InList(forcedKeys, codePoint)
    /\ ListsDisjoint(excludedKeys', forcedKeys')
    /\ DuplicateFree(excludedKeys')
    /\ DuplicateFree(forcedKeys')

\* C29: in the practice Controller, starting from empty lists, every toggle
\* of an existing key flips that key's inclusion, leaves the other keys'
\* entries in both lists unchanged and keeps excludedKeys and forcedKeys
\* disjoint and duplicate-free.
C29_ControllerToggleFlips == [][ToggleFlipsKey]_vars

\* Key a, which the algorithm left out, after two toggles: forced in by the
\* first, excluded again by the second, next to an excluded key b.
C29_Witness ==
  /\ pc = "practice"
  /\ toggled = cp.a
  /\ ~algorithmKeys[cp.a].isIncluded
  /\ excludedKeys = <<cp.b, cp.a>>
  /\ forcedKeys = <<>>
  /\ ~lessonKeys[cp.a].isIncluded

\* One step of the preview that toggles the only included key.
ToggleOnLastKeyIsIgnored ==
  (pc = "preview" /\ toggled' \in KeyCodes /\ findIncludedKeys(lessonKeys) = {toggled'}) =>
    /\ excludedKeys' = excludedKeys
    /\ forcedKeys' = forcedKeys

\* C30: in the lesson preview, starting with at least one included key,
\* after any sequence of toggles at least one key is still included, and a
\* toggle on the only included key changes neither excludedKeys nor
\* forcedKeys.
C30_PreviewKeepsLastKey ==
  /\ [](pc = "preview" => findIncludedKeys(lessonKeys) # {})
  /\ [][ToggleOnLastKeyIsIgnored]_vars

\* Key c is the only included key left after a and b were excluded by
\* toggles, and the last toggle, on c, was ignored.
C30_Witness ==
  /\ pc = "preview"
  /\ toggled = cp.c
  /\ findIncludedKeys(lessonKeys) = {cp.c}
  /\ findIncludedKeys(algorithmKeys) = KeyCodes
  /\ InList(excludedKeys, cp.a)
  /\ InList(excludedKeys, cp.b)
  /\ ~InList(excludedKeys, cp.c)

====
